---- MODULE Spec2Model ----
(***************************************************************************)
(* Model of src/src/asyncContext.ts (getAsyncContext): a registry owns one *)
(* AsyncLocalStorage instance, a default-value record and an onError hook; *)
(* ctx.get/ctx.set go to the store bound to the running continuation;      *)
(* runWithAsyncContext binds a fresh Map for the extent of its callback.   *)
(*                                                                         *)
(* The host runtime is modelled as a single thread running one             *)
(* continuation ("task") at a time.  node:async_hooks' AsyncLocalStorage   *)
(* is modelled by its documented behaviour: run(store, cb) binds store for *)
(* the synchronous extent of cb and restores the previous binding after    *)
(* it; a continuation created while a binding is active captures it and    *)
(* gets it back when the scheduler resumes it.                             *)
(***************************************************************************)
EXTENDS Integers, Sequences, FiniteSets, TLC

\* ---------------------------------------------------------------- bounds
NTasks == 2
MaxStores == 2
MaxHookCalls == 1

\* ------------------------------------------------------------ the domain
Regs == {1, 2}
Tasks == 1..NTasks
StoreIds == 1..MaxStores
Keys == {"correlationId", "userId"}
Cyclic == "CYCLIC"                  \* a value JSON.stringify cannot render
StrVals == {":id1", ":id2"}         \* ordinary string values
Vals == StrVals \cup {Cyclic}
Absent == "ABSENT"                  \* Map.has(key) is false
NoStore == 0                        \* asyncLocalStorage.getStore() === undefined
NoTask == 0

\* name given to getAsyncContext: both registries carry the same name
RegName(r) == "correlationId-context"

\* the defaults record given to getAsyncContext
DefaultsOf(r) ==
  IF r = 1 THEN [k \in Keys |-> IF k = "correlationId" THEN "dflt1-cid" ELSE "dflt1-uid"]
           ELSE [k \in Keys |-> IF k = "correlationId" THEN "dflt2-cid" ELSE "dflt2-uid"]

\* the initialStore objects handed to runWithAsyncContext: records over a
\* (possibly partial) set of keys
InitialStores ==
  { [k \in {"correlationId"} |-> ":id1"],
    [k \in Keys |-> IF k = "correlationId" THEN ":id2" ELSE ":id1"] }

\* the inputs of the two-registry runs: both registries, one key written (every
\* key read), every value
RegKeys == {"correlationId"}
RegInitialStores == { [k \in RegKeys |-> v] : v \in StrVals }
MainRegs == {1}
RegTasks == {1}
\* the key the branches of the one-registry runs write (they read every key)
WriteKeys == {"correlationId"}

\* stored values that are present in the Map and yet empty: "" and undefined
Empty == ""
Undefined == "UNDEFINED"
\* the inputs of the runs over empty values: the values written, and the
\* initialStore objects (one holds every key, one omits userId)
EmptyVals == {Empty, Undefined}
EmptyInitialStores ==
  { [k \in Keys |-> ":id1"],
    [k \in {"correlationId"} |-> Undefined] }

\* what the callbacks of the runs that observe results return synchronously
RetVals == {"undefined", "result"}
\* what the callbacks of those runs throw synchronously
CallbackErrors == {"CallbackError"}
\* the promise an asynchronous callback returns: one per continuation
PromiseOf(t) == "promise:" \o ToString(t)

EmptyMap == [k \in Keys |-> Absent]
NoBinding == [r \in Regs |-> NoStore]

VARIABLES
  stores,      \* heap of Maps made by runWithAsyncContext: id -> [reg, owner, map]
  nstores,     \* number of Maps allocated so far
  current,     \* binding of the code now running: ALS instance -> store id
  running,     \* the continuation now running (NoTask: event loop idle)
  callStack,   \* pending asyncLocalStorage.run calls of the running code
  tasks,       \* continuations: status, captured binding, root branch
  hookCalls,   \* per registry: how often options.onError was called
  defaults,    \* per registry: the defaults record
  lastOp,      \* the last ctx/run operation and its outcome
  noStoreReads,\* history: per registry, reads done with no active store
  lastWritten, \* history: per store and key, the value last written by set
  susp         \* history: per task, the binding it had when it last stopped running

vars == <<stores, nstores, current, running, callStack, tasks, hookCalls,
          defaults, lastOp, noStoreReads, lastWritten, susp>>

\* ------------------------------------------------------- pure operations

\* JSON.stringify(value) as used by set: a string is rendered in quotes, a
\* cyclic value makes JSON.stringify throw a TypeError
JsonThrows(v) == v = Cyclic
JsonStringify(v) == "\"" \o v \o "\""

\* the Error message built by set when no store is active
SetErrorMessage(name, key, serializedValue) ==
  << "AsyncLocalStorage \"", name, "\" store undefined when setting a new value.\n\n",
     "This usually hapens when you don't initialize the context before trying to set a value.\n",
     "Make sure you are using `runWithAsyncContext` to wrap your entry point.\n\n",
     "Key: \t'", key, "'\nValue: \t'", serializedValue, "'\n" >>

\* the Error message built by get and handed to options.onError
GetErrorMessage(name, key) ==
  << "AsyncLocalStorage \"", name, "\" store undefined when getting a value.\n\n",
     "This usually hapens when you don't initialize the context before trying to get a value.\n",
     "Make sure you are using `runWithAsyncContext` to wrap your entry point.\n\n",
     "Key: \t'", key, "'\n" >>

TypeErrorMessage == << "Converting circular structure to JSON" >>

\* each getAsyncContext call makes its own AsyncLocalStorage instance
AlsShared(r) == 1                   \* faulty variant: one instance for all
AlsOf(r) == r

\* asyncLocalStorage.getStore() of registry r for the running code
GetStore(r) == current[AlsOf(r)]

\* store.set(key, value) on the Map m
MapSetAll(m, key, value) == [k \in Keys |-> value]   \* faulty variant
MapSet(m, key, value) == [m EXCEPT ![key] = value]

\* set(key, value) of registry r, evaluated on heap h under binding b:
\* the heap afterwards
SetHeapDropped(h, b, r, key, value) == h     \* faulty variant: write lost
SetHeap(h, b, r, key, value) ==
  LET s == b[AlsOf(r)] IN
  IF s # NoStore THEN [h EXCEPT ![s].map = MapSet(@, key, value)] ELSE h

\* set(key, value): its outcome for the caller
\* (faulty variant: the write with no store is dropped silently)
SetOutcomeSilent(b, r, key, value) == [err |-> "none", msg |-> <<>>]
SetOutcome(b, r, key, value) ==
  LET s == b[AlsOf(r)] IN
  IF s # NoStore THEN [err |-> "none", msg |-> <<>>]
  ELSE IF JsonThrows(value) THEN [err |-> "TypeError", msg |-> TypeErrorMessage]
  ELSE [err |-> "Error",
        msg |-> SetErrorMessage(RegName(r), key, JsonStringify(value))]

\* get(key): does it call options.onError
\* (faulty variant: also when the active store lacks the key)
GetCallsHookOnMiss(r, key) ==
  LET s == GetStore(r) IN IF s = NoStore THEN TRUE ELSE stores[s].map[key] = Absent
GetCallsHook(r, key) == GetStore(r) = NoStore

\* the defaults object after set(key, value) under binding b: set writes the
\* active Map or throws, never the defaults
\* (faulty variant: with no active store the value is kept as the default)
SetDefaultsFallback(d, b, r, key, value) ==
  IF b[AlsOf(r)] = NoStore THEN [d EXCEPT ![r][key] = value] ELSE d
SetDefaults(d, b, r, key, value) == d

\* get(key): the value it returns when options.onError returns normally
\* (faulty variants: a stored value that is empty counts as missing; a key
\* the active store lacks is looked up in the store of the enclosing scope)
GetValueTruthy(r, key) ==
  LET s == GetStore(r) IN
  IF s = NoStore THEN defaults[r][key]
  ELSE IF stores[s].map[key] \in {Absent, Empty, Undefined}
       THEN defaults[r][key]
       ELSE stores[s].map[key]
GetValueInherited(r, key) ==
  LET s == GetStore(r)
      outer == IF callStack = <<>> THEN NoStore
               ELSE callStack[Len(callStack)].prev
  IN IF s = NoStore THEN defaults[r][key]
     ELSE IF stores[s].map[key] # Absent THEN stores[s].map[key]
     ELSE IF outer = NoStore THEN defaults[r][key]
     ELSE IF stores[outer].map[key] # Absent THEN stores[outer].map[key]
     ELSE defaults[r][key]
GetValue(r, key) ==
  LET s == GetStore(r) IN
  IF s # NoStore /\ stores[s].map[key] # Absent
  THEN stores[s].map[key]
  ELSE defaults[r][key]

\* the loop of runWithAsyncContext: set(key, value) for every entry
\* (faulty variant: next() is called before the loop has run)
SeedNothing(h, b, r, init) == h
RECURSIVE Seed(_, _, _, _)
Seed(h, b, r, init) ==
  IF DOMAIN init = {} THEN h
  ELSE LET k == CHOOSE x \in DOMAIN init : TRUE
           rest == [x \in DOMAIN init \ {k} |-> init[x]]
       IN Seed(SetHeap(h, b, r, k, init[k]), b, r, rest)

\* new Map() in runWithAsyncContext
NewStoreShared(r) == 1              \* faulty variant: one Map reused
NewStore(r) == nstores + 1

\* asyncLocalStorage.run, after its callback: the binding it leaves behind
\* (faulty variant: the previous store is not put back)
RestoreNone(top) == [current EXCEPT ![top.als] = NoStore]
RestoreBinding(top) == [current EXCEPT ![top.als] = top.prev]

\* the binding a continuation gets back when the scheduler resumes it
\* (faulty variant: a plain global, whatever is bound when the scheduler runs)
ResumeBindingGlobal(t) == current
ResumeBinding(t) == tasks[t].saved

\* what runWithAsyncContext returns when next() returned v
\* (faulty variant: the result of next() is not handed back)
RunResultDropped(v) == "undefined"
RunResult(v) == v

\* what runWithAsyncContext throws when next() threw e: there is no
\* try/catch around next() or around asyncLocalStorage.run
\* (faulty variant: the exception is caught and dropped)
RunErrorSwallowed(e) == "none"
RunError(e) == e

NoOp == [kind |-> "none", reg |-> 0, key |-> "", val |-> "",
         st |-> NoStore, ret |-> "", err |-> "none", msg |-> <<>>, hook |-> FALSE]

\* ------------------------------------------------------------------ Init
Init ==
  /\ stores = [s \in StoreIds |-> [reg |-> 0, owner |-> NoTask, map |-> EmptyMap]]
  /\ nstores = 0
  /\ current = NoBinding
  /\ running = NoTask
  /\ callStack = <<>>
  /\ tasks = [t \in Tasks |-> [status |-> "free", saved |-> NoBinding, root |-> NoTask]]
  /\ hookCalls = [r \in Regs |-> 0]
  /\ defaults = [r \in Regs |-> DefaultsOf(r)]
  /\ lastOp = NoOp
  /\ noStoreReads = [r \in Regs |-> 0]
  /\ lastWritten = [s \in StoreIds |-> EmptyMap]
  /\ susp = [t \in Tasks |-> NoBinding]

\* --------------------------------------------------------------- actions

\* continuations get their identities in order of creation
NextFree ==
  IF \E t \in Tasks : tasks[t].status = "free"
  THEN CHOOSE t \in Tasks : tasks[t].status = "free" /\
                            \A u \in Tasks : tasks[u].status = "free" => t <= u
  ELSE NoTask

\* ctx[key] read by the running code; options.onError, when called, either
\* returns or throws (hookThrows)
Get(r, key, hookThrows) ==
  /\ running # NoTask
  /\ hookThrows => GetCallsHook(r, key)
  /\ GetCallsHook(r, key) => hookCalls[1] + hookCalls[2] < MaxHookCalls
  /\ hookCalls' = [hookCalls EXCEPT ![r] = IF GetCallsHook(r, key) THEN @ + 1 ELSE @]
  /\ noStoreReads' = [noStoreReads EXCEPT ![r] = IF current[r] = NoStore THEN @ + 1 ELSE @]
  /\ lastOp' = [kind |-> "get", reg |-> r, key |-> key, val |-> "",
                st |-> GetStore(r),
                ret |-> IF hookThrows THEN "" ELSE GetValue(r, key),
                err |-> IF hookThrows THEN "HookError" ELSE "none",
                msg |-> IF GetCallsHook(r, key)
                        THEN GetErrorMessage(RegName(r), key) ELSE <<>>,
                hook |-> GetCallsHook(r, key)]
  /\ UNCHANGED <<stores, nstores, current, running, callStack, tasks, defaults,
                 lastWritten, susp>>

\* ctx[key] read by code that runs inside a scope of registry r
GetInScope(r, key) ==
  /\ GetStore(r) # NoStore
  /\ Get(r, key, FALSE)

\* ctx[key] = value by the running code
Set(r, key, value) ==
  /\ running # NoTask
  /\ stores' = SetHeap(stores, current, r, key, value)
  /\ lastWritten' = IF current[r] # NoStore
                    THEN [lastWritten EXCEPT ![current[r]][key] = value]
                    ELSE lastWritten
  /\ lastOp' = [kind |-> "set", reg |-> r, key |-> key, val |-> value,
                st |-> GetStore(r), ret |-> "",
                err |-> SetOutcome(current, r, key, value).err,
                msg |-> SetOutcome(current, r, key, value).msg,
                hook |-> FALSE]
  /\ defaults' = SetDefaults(defaults, current, r, key, value)
  /\ UNCHANGED <<nstores, current, running, callStack, tasks, hookCalls,
                 noStoreReads, susp>>

\* ctx[key] = value by code that runs inside a scope of registry r
SetInScope(r, key, value) ==
  /\ GetStore(r) # NoStore
  /\ Set(r, key, value)

\* runWithAsyncContext(initialStore, next) up to the call of next: new Map,
\* asyncLocalStorage.run binds it, the loop seeds it through set
RunEnter(r, init) ==
  /\ running # NoTask
  /\ nstores < MaxStores
  /\ LET s == NewStore(r)
         b == [current EXCEPT ![AlsOf(r)] = s]
         fresh == [stores EXCEPT ![s] = [reg |-> r, owner |-> tasks[running].root,
                                         map |-> EmptyMap]]
     IN /\ stores' = Seed(fresh, b, r, init)
        /\ current' = b
        /\ callStack' = Append(callStack,
                               [reg |-> r, als |-> AlsOf(r), prev |-> current[AlsOf(r)],
                                store |-> s])
        /\ lastWritten' = [lastWritten EXCEPT ![s] =
                             [k \in Keys |-> IF k \in DOMAIN init THEN init[k] ELSE Absent]]
        /\ lastOp' = [kind |-> "run", reg |-> r, key |-> "", val |-> "",
                      st |-> s, ret |-> "",
                      err |-> IF \E k \in DOMAIN init :
                                   SetOutcome(b, r, k, init[k]).err # "none"
                              THEN "Error" ELSE "none",
                      msg |-> <<>>, hook |-> FALSE]
  /\ nstores' = nstores + 1
  /\ UNCHANGED <<running, tasks, hookCalls, defaults, noStoreReads, susp>>

\* next() returns and asyncLocalStorage.run restores the previous binding
RunExit ==
  /\ running # NoTask
  /\ callStack # <<>>
  /\ LET top == callStack[Len(callStack)]
     IN /\ current' = RestoreBinding(top)
        /\ lastOp' = [NoOp EXCEPT !.kind = "exit", !.st = top.store]
  /\ callStack' = SubSeq(callStack, 1, Len(callStack) - 1)
  /\ UNCHANGED <<stores, nstores, running, tasks, hookCalls, defaults,
                 noStoreReads, lastWritten, susp>>

\* the event loop starts a new, unrelated branch: no store is bound
Start(t) ==
  /\ running = NoTask
  /\ t = NextFree
  /\ running' = t
  /\ current' = NoBinding
  /\ tasks' = [tasks EXCEPT ![t] = [status |-> "running", saved |-> NoBinding, root |-> t]]
  /\ lastOp' = NoOp
  /\ UNCHANGED <<stores, nstores, callStack, hookCalls, defaults, noStoreReads,
                 lastWritten, susp>>

\* the running code schedules a continuation (an async function reaching an
\* await, a promise reaction, a timer callback): it captures the binding
Spawn(t) ==
  /\ running # NoTask
  /\ t = NextFree
  /\ tasks' = [tasks EXCEPT ![t] = [status |-> "suspended", saved |-> current,
                                    root |-> tasks[running].root]]
  /\ susp' = [susp EXCEPT ![t] = current]
  /\ lastOp' = NoOp
  /\ UNCHANGED <<stores, nstores, current, running, callStack, hookCalls, defaults,
                 noStoreReads, lastWritten>>

\* the running continuation awaits: it captures the binding and yields; the
\* synchronous callers (pending runWithAsyncContext calls included) return
\* without touching ctx again
Suspend ==
  /\ running # NoTask
  /\ callStack' = <<>>
  /\ tasks' = [tasks EXCEPT ![running].status = "suspended", ![running].saved = current]
  /\ susp' = [susp EXCEPT ![running] = current]
  /\ running' = NoTask
  /\ current' = NoBinding
  /\ lastOp' = NoOp
  /\ UNCHANGED <<stores, nstores, hookCalls, defaults, noStoreReads, lastWritten>>

\* the scheduler resumes a suspended continuation with its captured binding
Resume(t) ==
  /\ running = NoTask
  /\ tasks[t].status = "suspended"
  /\ running' = t
  /\ current' = ResumeBinding(t)
  /\ tasks' = [tasks EXCEPT ![t].status = "running", ![t].saved = NoBinding]
  /\ lastOp' = NoOp
  /\ UNCHANGED <<stores, nstores, callStack, hookCalls, defaults, noStoreReads,
                 lastWritten, susp>>

\* the running continuation runs to completion
Finish ==
  /\ running # NoTask
  /\ callStack = <<>>
  /\ tasks' = [tasks EXCEPT ![running] = [status |-> "done", saved |-> NoBinding,
                                            root |-> NoTask]]
  /\ running' = NoTask
  /\ current' = NoBinding
  /\ susp' = [susp EXCEPT ![running] = NoBinding]
  /\ lastOp' = NoOp
  /\ UNCHANGED <<stores, nstores, callStack, hookCalls, defaults,
                 noStoreReads, lastWritten>>

\* next() returns v synchronously: asyncLocalStorage.run restores the previous
\* binding and runWithAsyncContext returns the result
RunReturn(v) ==
  /\ running # NoTask
  /\ callStack # <<>>
  /\ LET top == callStack[Len(callStack)]
     IN /\ current' = RestoreBinding(top)
        /\ lastOp' = [NoOp EXCEPT !.kind = "exit", !.st = top.store,
                                  !.val = v, !.ret = RunResult(v)]
  /\ callStack' = SubSeq(callStack, 1, Len(callStack) - 1)
  /\ UNCHANGED <<stores, nstores, running, tasks, hookCalls, defaults,
                 noStoreReads, lastWritten, susp>>

\* next() throws e synchronously: asyncLocalStorage.run restores the previous
\* binding on the way out and runWithAsyncContext throws e to its caller
RunThrow(e) ==
  /\ running # NoTask
  /\ callStack # <<>>
  /\ LET top == callStack[Len(callStack)]
     IN /\ current' = RestoreBinding(top)
        /\ lastOp' = [NoOp EXCEPT !.kind = "exit", !.st = top.store,
                                  !.err = RunError(e)]
  /\ callStack' = SubSeq(callStack, 1, Len(callStack) - 1)
  /\ UNCHANGED <<stores, nstores, running, tasks, hookCalls, defaults,
                 noStoreReads, lastWritten, susp>>

\* next() is an async function that reaches an await: its continuation t
\* captures the binding, next() returns its pending promise, and
\* asyncLocalStorage.run restores the previous binding; runWithAsyncContext
\* returns the promise to the caller, which goes on running
RunAwait(t) ==
  /\ running # NoTask
  /\ callStack # <<>>
  /\ t = NextFree
  /\ tasks' = [tasks EXCEPT ![t] = [status |-> "suspended", saved |-> current,
                                    root |-> tasks[running].root]]
  /\ susp' = [susp EXCEPT ![t] = current]
  /\ LET top == callStack[Len(callStack)]
     IN /\ current' = RestoreBinding(top)
        /\ lastOp' = [NoOp EXCEPT !.kind = "exit", !.st = top.store,
                                  !.val = PromiseOf(t),
                                  !.ret = RunResult(PromiseOf(t))]
  /\ callStack' = SubSeq(callStack, 1, Len(callStack) - 1)
  /\ UNCHANGED <<stores, nstores, running, hookCalls, defaults,
                 noStoreReads, lastWritten>>

\* many branches over one registry; they read ctx inside a scope (reads
\* outside every scope are those of the two-registry runs below)
Next ==
  \/ \E r \in MainRegs, k \in Keys : GetInScope(r, k)
  \/ \E r \in MainRegs, k \in WriteKeys, v \in StrVals : Set(r, k, v)
  \/ \E r \in MainRegs, init \in InitialStores : RunEnter(r, init)
  \/ RunExit
  \/ \E t \in Tasks : Start(t)
  \/ \E t \in Tasks : Spawn(t)
  \/ Suspend
  \/ \E t \in Tasks : Resume(t)
  \/ Finish

Spec == Init /\ [][Next]_vars

\* one branch over two registries made by two getAsyncContext calls
NextRegs ==
  \/ \E r \in Regs, k \in Keys, h \in BOOLEAN : Get(r, k, h)
  \/ \E r \in Regs, k \in RegKeys, v \in Vals : Set(r, k, v)
  \/ \E r \in Regs, init \in RegInitialStores : RunEnter(r, init)
  \/ RunExit
  \/ \E t \in RegTasks : Start(t)
  \/ Suspend
  \/ \E t \in RegTasks : Resume(t)

SpecRegs == Init /\ [][NextRegs]_vars

\* one registry; the callbacks return a value, throw or, being async, return
\* a promise
NextRun ==
  \/ \E r \in MainRegs, k \in Keys : GetInScope(r, k)
  \/ \E r \in MainRegs, init \in InitialStores : RunEnter(r, init)
  \/ \E v \in RetVals : RunReturn(v)
  \/ \E e \in CallbackErrors : RunThrow(e)
  \/ \E t \in Tasks : RunAwait(t)
  \/ \E t \in Tasks : Start(t)
  \/ \E t \in Tasks : Resume(t)
  \/ Finish

SpecRun == Init /\ [][NextRun]_vars

\* one registry, one branch; nested scopes whose stores hold empty values
\* and lack keys, read and written on every key
NextEmpty ==
  \/ \E r \in MainRegs, k \in Keys : GetInScope(r, k)
  \/ \E r \in MainRegs, k \in Keys, v \in EmptyVals : SetInScope(r, k, v)
  \/ \E r \in MainRegs, init \in EmptyInitialStores : RunEnter(r, init)
  \/ RunExit
  \/ \E t \in RegTasks : Start(t)

SpecEmpty == Init /\ [][NextEmpty]_vars

\* ---------------------------------------------------------------- claims

\* the store of the innermost scope of registry r the running code is in,
\* by the nesting of its runWithAsyncContext calls and, below them, by the
\* scope it was in when it last stopped running
ExpectedStore(r) ==
  LET idx == {i \in 1..Len(callStack) : callStack[i].reg = r} IN
  IF idx = {} THEN susp[running][r]
  ELSE callStack[CHOOSE i \in idx : \A j \in idx : j <= i].store

Contains(msg, x) == \E i \in 1..Len(msg) : msg[i] = x

\* the JSON text of the string values
Rendered(v) == IF v = ":id1" THEN "\":id1\"" ELSE "\":id2\""

\* C1: isolation. Every read and write through ctx by a continuation of
\* branch A goes to a store created by branch A, never to one created by an
\* unrelated branch B, whatever the interleaving; a read returns what that
\* store holds for the key.
Isolation ==
  (running # NoTask /\ lastOp.kind \in {"get", "set"} /\ lastOp.st # NoStore) =>
    /\ stores[lastOp.st].owner = tasks[running].root
    /\ (lastOp.kind = "get" /\ stores[lastOp.st].map[lastOp.key] # Absent)
         => lastOp.ret = stores[lastOp.st].map[lastOp.key]

\* a continuation resumed inside its scope reads its value while an
\* unrelated branch is suspended inside a scope holding a different value
IsolationWitness ==
  /\ running # NoTask
  /\ callStack = <<>>
  /\ lastOp.kind = "get" /\ lastOp.st # NoStore /\ lastOp.key = "correlationId"
  /\ \E u \in Tasks :
       /\ u # running
       /\ tasks[u].status = "suspended"
       /\ tasks[u].root # tasks[running].root
       /\ tasks[u].saved[1] # NoStore
       /\ stores[tasks[u].saved[1]].map["correlationId"] # lastOp.ret

\* C2: the binding survives suspension. A continuation that runs outside
\* any pending runWithAsyncContext call of its own has exactly the binding it
\* had when it last suspended, whatever ran in between.
BindingSurvivesSuspension ==
  (running # NoTask /\ callStack = <<>>) => current = susp[running]

\* a continuation is back in its store after an unrelated branch made a
\* later store and suspended in it
BindingSurvivesWitness ==
  /\ running # NoTask
  /\ callStack = <<>>
  /\ current[1] # NoStore
  /\ \E u \in Tasks :
       /\ u # running
       /\ tasks[u].status = "suspended"
       /\ tasks[u].root # tasks[running].root
       /\ tasks[u].saved[1] > current[1]

\* C3: nesting restores the outer scope. Inside pending runWithAsyncContext
\* calls, and right after one returns, the bound store is that of the
\* innermost pending call (the outer one again once the inner has returned),
\* and a read returns that store's value.
NestingRestoresOuter ==
  (running # NoTask /\ (callStack # <<>> \/ lastOp.kind = "exit")) =>
    /\ \A r \in Regs : GetStore(r) = ExpectedStore(r)
    /\ lastOp.kind = "get" =>
         /\ lastOp.st = ExpectedStore(lastOp.reg)
         /\ (lastOp.st # NoStore /\ stores[lastOp.st].map[lastOp.key] # Absent)
              => lastOp.ret = stores[lastOp.st].map[lastOp.key]

\* a read in the outer callback, after a nested call holding another value
\* has returned, returns the outer value
NestingWitness ==
  /\ running # NoTask
  /\ Len(callStack) = 1 /\ callStack[1].store = 1
  /\ nstores = 2
  /\ lastOp.kind = "get" /\ lastOp.key = "correlationId" /\ lastOp.st = 1
  /\ stores[2].map["correlationId"] # lastOp.ret

\* C4: update visibility. A read of key k with a store active returns the
\* value last written to k in that store (by the seeding or by a later write
\* through ctx), also after suspensions.
UpdateVisibility ==
  (lastOp.kind = "get" /\ lastOp.st # NoStore
     /\ lastWritten[lastOp.st][lastOp.key] # Absent)
    => (lastOp.err = "none" /\ lastOp.ret = lastWritten[lastOp.st][lastOp.key])

\* a resumed continuation reads the overwritten value of a key seeded ":id1"
UpdateVisibilityWitness ==
  /\ running # NoTask
  /\ callStack = <<>>
  /\ lastOp.kind = "get" /\ lastOp.st # NoStore /\ lastOp.key = "correlationId"
  /\ stores[lastOp.st].map["userId"] = Absent
  /\ lastOp.ret = ":id2"

\* C5 as stated: a read with no active store returns the default and calls
\* the hook once, and hook calls equal the reads done with no active store.
ReadFallbackOriginal ==
  /\ (lastOp.kind = "get" /\ lastOp.st = NoStore) =>
       /\ lastOp.hook
       /\ lastOp.err = "none"
       /\ lastOp.ret = DefaultsOf(lastOp.reg)[lastOp.key]
  /\ \A r \in Regs : hookCalls[r] = noStoreReads[r]

\* C5 amended: a read with no active store calls the hook once and, when the
\* hook returns normally, returns the default; hook calls equal the reads
\* done with no active store.
ReadFallback ==
  /\ (lastOp.kind = "get" /\ lastOp.st = NoStore) =>
       /\ lastOp.hook
       /\ lastOp.err = "none" => lastOp.ret = DefaultsOf(lastOp.reg)[lastOp.key]
  /\ \A r \in Regs : hookCalls[r] = noStoreReads[r]

\* a read with no active store returned the default through a hook that
\* returned normally
ReadFallbackWitness ==
  /\ lastOp.kind = "get" /\ lastOp.st = NoStore /\ lastOp.err = "none"
  /\ lastOp.ret = "dflt1-cid"
  /\ hookCalls[1] = 1

\* C6 as stated: a write with no active store raises the error whose message
\* holds the registry name, the key and the JSON text of the value.
WriteFailureOriginal ==
  (lastOp.kind = "set" /\ lastOp.st = NoStore) =>
    /\ lastOp.err = "Error"
    /\ Contains(lastOp.msg, "correlationId-context")
    /\ Contains(lastOp.msg, lastOp.key)
    /\ lastOp.val \in StrVals => Contains(lastOp.msg, Rendered(lastOp.val))

\* C6 amended: a write with no active store always raises and changes no
\* store and no default; for a value JSON.stringify renders, the message
\* holds the registry name, the key and the JSON text of the value.
WriteFailure ==
  (lastOp.kind = "set" /\ lastOp.st = NoStore) =>
    /\ lastOp.err # "none"
    /\ \A s \in StoreIds : stores[s].map = lastWritten[s]
    /\ \A r \in Regs : defaults[r] = DefaultsOf(r)
    /\ lastOp.val \in StrVals =>
         /\ lastOp.err = "Error"
         /\ Contains(lastOp.msg, "correlationId-context")
         /\ Contains(lastOp.msg, lastOp.key)
         /\ Contains(lastOp.msg, Rendered(lastOp.val))

\* a write of a string failed outside every scope while an earlier store exists
WriteFailureWitness ==
  /\ lastOp.kind = "set" /\ lastOp.st = NoStore /\ lastOp.val = ":id2"
  /\ lastOp.err = "Error"
  /\ nstores >= 1

\* C7 as stated: no read raises, whatever the hook does.
ReadsNeverThrowOriginal ==
  lastOp.kind = "get" => lastOp.err = "none"

\* C7 amended: a read raises only what the hook raised: with a store active
\* it always returns a value, and with none it raises exactly when the hook
\* does.
ReadsThrowOnlyFromHook ==
  lastOp.kind = "get" =>
    /\ lastOp.st # NoStore => (lastOp.err = "none" /\ ~lastOp.hook)
    /\ lastOp.err # "none" => (lastOp.err = "HookError" /\ lastOp.hook)

\* a read of a key the active store lacks returned the default
ReadsNeverThrowWitness ==
  /\ lastOp.kind = "get" /\ lastOp.st # NoStore
  /\ stores[lastOp.st].map[lastOp.key] = Absent
  /\ lastOp.err = "none" /\ lastOp.ret = "dflt1-uid"

\* C8: the hook is called only by a read with no active store: the count of
\* a registry grows only in a read through that registry's ctx made with no
\* store of it active, and then by one.
HookOnlyOnUninitializedRead ==
  [][\A r \in Regs :
       hookCalls'[r] # hookCalls[r] =>
         /\ lastOp'.kind = "get" /\ lastOp'.reg = r
         /\ ExpectedStore(r) = NoStore
         /\ hookCalls'[r] = hookCalls[r] + 1]_vars

\* writes failed and succeeded, a scope was seeded and a key absent from the
\* active store was read, and the hook was never called
HookOnlyWitness ==
  /\ lastOp.kind = "get" /\ lastOp.st # NoStore
  /\ stores[lastOp.st].map[lastOp.key] = Absent
  /\ stores[lastOp.st].map["correlationId"] = ":id2"
  /\ nstores = 2
  /\ \A r \in Regs : hookCalls[r] = 0

\* C9: registries are independent. Each ctx reads and writes only a store
\* made by its own registry's runWithAsyncContext; a scope of one registry
\* binds no store for the other, so there a read gives the other's default
\* and calls the other's hook and a write raises; stores hold only what was
\* written through their own registry, and each hook count is that of its
\* own registry's reads.
RegistriesIndependent ==
  /\ running # NoTask =>
       \A r \in Regs :
         /\ GetStore(r) = ExpectedStore(r)
         /\ GetStore(r) # NoStore => stores[GetStore(r)].reg = r
         /\ (lastOp.kind = "get" /\ lastOp.reg = r /\ ExpectedStore(r) = NoStore) =>
              /\ lastOp.hook
              /\ lastOp.err = "none" => lastOp.ret = DefaultsOf(r)[lastOp.key]
         /\ (lastOp.kind = "set" /\ lastOp.reg = r /\ ExpectedStore(r) = NoStore) =>
              lastOp.err # "none"
  /\ \A r \in Regs : hookCalls[r] = noStoreReads[r]
  /\ \A s \in StoreIds : stores[s].map = lastWritten[s]

\* inside a scope of registry 1 and none of registry 2, a read through
\* registry 2's ctx gave registry 2's default through its hook
RegistriesWitness ==
  /\ running # NoTask
  /\ \E i \in 1..Len(callStack) : callStack[i].reg = 1
  /\ \A i \in 1..Len(callStack) : callStack[i].reg # 2
  /\ lastOp.kind = "get" /\ lastOp.reg = 2 /\ lastOp.hook
  /\ lastOp.ret = "dflt2-cid"
  /\ hookCalls = [r \in Regs |-> IF r = 2 THEN 1 ELSE 0]

\* C10: a successful write of key k changes exactly the entry for k of the
\* store active for the writer; every other key, every other store and the
\* defaults stay as they were.
WriteFrame ==
  [][(lastOp'.kind = "set" /\ lastOp'.err = "none") =>
       /\ ExpectedStore(lastOp'.reg) # NoStore
       /\ stores' = [stores EXCEPT
                       ![ExpectedStore(lastOp'.reg)].map[lastOp'.key] = lastOp'.val]
       /\ defaults' = defaults]_vars

\* a write inside a nested scope whose store holds a second key, while the
\* outer store holds another value for the written key
WriteFrameWitness ==
  /\ running # NoTask
  /\ Len(callStack) = 2
  /\ lastOp.kind = "set" /\ lastOp.err = "none" /\ lastOp.st = callStack[2].store
  /\ stores[lastOp.st].map["userId"] # Absent
  /\ stores[callStack[1].store].map[lastOp.key] # lastOp.val

\* C11: seeding precedes the callback and uses a fresh store. When the
\* callback starts, the store bound for it is one no earlier call made and
\* nothing else refers to, it holds exactly the entries of initialStore, and
\* the seeding raised no error, whether or not a store was active before.
SeedingFreshStore ==
  (running # NoTask /\ lastOp.kind = "run") =>
    /\ lastOp.err = "none"
    /\ lastOp.st = nstores
    /\ callStack # <<>>
    /\ callStack[Len(callStack)].store = lastOp.st
    /\ GetStore(lastOp.reg) = lastOp.st
    /\ \A i \in 1..(Len(callStack) - 1) : callStack[i].store # lastOp.st
    /\ \A i \in 1..Len(callStack) : callStack[i].prev # lastOp.st
    /\ \A t \in Tasks : \A r \in Regs : tasks[t].saved[r] # lastOp.st
    /\ stores[lastOp.st].map = lastWritten[lastOp.st]

\* a call made inside an outer scope that holds userId starts its callback
\* with a store seeded with correlationId alone
SeedingWitness ==
  /\ running # NoTask
  /\ lastOp.kind = "run"
  /\ Len(callStack) = 2
  /\ stores[callStack[1].store].map["userId"] = ":id1"
  /\ stores[lastOp.st].map = [k \in Keys |-> IF k = "correlationId" THEN ":id1" ELSE Absent]

IsPromise(v) == \E t \in Tasks : v = PromiseOf(t)
\* the continuation behind promise v has run to completion
Settled(v) == \E t \in Tasks : v = PromiseOf(t) /\ tasks[t].status = "done"
StoresOnStack == {callStack[i].store : i \in 1..Len(callStack)}

\* C12: the callback is invoked exactly once per call and its result is the
\* result of the call. A call opens one callback extent (its store is on the
\* stack of pending calls once, on top, when the callback starts), closes it
\* when the callback returns (the store is on the stack no more), and hands
\* back what the callback returned, a plain value or a promise alike.
CallbackOnceResultReturned ==
  /\ (running # NoTask /\ lastOp.kind = "run") =>
        /\ callStack # <<>>
        /\ callStack[Len(callStack)].store = lastOp.st
        /\ Cardinality({i \in 1..Len(callStack) : callStack[i].store = lastOp.st}) = 1
  /\ (running # NoTask /\ lastOp.kind = "exit") =>
        /\ lastOp.st \notin StoresOnStack
        /\ lastOp.ret = lastOp.val

\* a nested call whose callback returned the plain value "result"
CallbackResultWitness ==
  /\ running # NoTask
  /\ lastOp.kind = "exit"
  /\ lastOp.val = "result"
  /\ lastOp.ret = "result"
  /\ Len(callStack) = 1

\* C13 as stated: with an asynchronous callback the call does not complete
\* before the callback's asynchronous work has settled.
RunWaitsForSettlementOriginal ==
  (running # NoTask /\ lastOp.kind = "exit" /\ IsPromise(lastOp.val)) =>
    Settled(lastOp.val)

\* C13, amended: with an asynchronous callback the call returns, without
\* waiting, the very promise the callback returned; the continuation behind
\* it is still pending then, bound to the store of the call, and the caller
\* gets the eventual result by awaiting the returned promise.
RunReturnsPendingPromise ==
  (running # NoTask /\ lastOp.kind = "exit" /\ IsPromise(lastOp.val)) =>
    /\ lastOp.ret = lastOp.val
    /\ ~Settled(lastOp.ret)
    /\ \E t \in Tasks :
         /\ lastOp.ret = PromiseOf(t)
         /\ tasks[t].status = "suspended"
         /\ \E r \in Regs : tasks[t].saved[r] = lastOp.st

\* a call made outside every scope has returned the promise of its callback
\* while the callback's continuation is still suspended in the call's store
RunReturnsPromiseWitness ==
  /\ running # NoTask
  /\ lastOp.kind = "exit"
  /\ callStack = <<>>
  /\ GetStore(1) = NoStore
  /\ \E t \in Tasks :
       /\ lastOp.ret = PromiseOf(t)
       /\ tasks[t].status = "suspended"
       /\ tasks[t].saved[1] = lastOp.st

\* C14 as stated: the outer store becomes active again only when the inner
\* extent has ended, which for an asynchronous inner callback is when its
\* promise settles: while the code of an outer callback runs with the outer
\* store, no continuation of a scope nested in it is still pending.
LifoAtSettlementOriginal ==
  (running # NoTask /\ callStack # <<>>) =>
    \A t \in Tasks :
      ~ /\ tasks[t].status = "suspended"
        /\ tasks[t].root = tasks[running].root
        /\ tasks[t].saved[1] > callStack[Len(callStack)].store

\* C14, amended: the pending calls of a branch form a stack; the running code
\* sees the store of the innermost pending call; a call that returns is the
\* most recently entered one, and the store active before it is active again
\* at that synchronous return, for a synchronous and an asynchronous callback
\* alike. The continuation of an asynchronous callback keeps the inner store
\* until it settles, after the outer store is active again for the caller.
LifoRestoreAtReturn ==
  running # NoTask =>
    /\ \A i, j \in 1..Len(callStack) :
         i < j => callStack[i].store < callStack[j].store
    /\ \A j \in 2..Len(callStack) : callStack[j].prev = callStack[j - 1].store
    /\ callStack # <<>> => GetStore(1) = callStack[Len(callStack)].store
    /\ lastOp.kind = "exit" =>
         /\ \A i \in 1..Len(callStack) : callStack[i].store < lastOp.st
         /\ GetStore(1) = ExpectedStore(1)
         /\ \A t \in Tasks :
              lastOp.val = PromiseOf(t) =>
                /\ tasks[t].status = "suspended"
                /\ tasks[t].saved[1] = lastOp.st

\* an inner call with an asynchronous callback has returned inside an outer
\* callback: the outer store is active while the inner continuation is pending
LifoWitness ==
  /\ running # NoTask
  /\ lastOp.kind = "exit"
  /\ Len(callStack) = 1
  /\ GetStore(1) = callStack[1].store
  /\ \E t \in Tasks :
       /\ lastOp.val = PromiseOf(t)
       /\ tasks[t].status = "suspended"
       /\ tasks[t].saved[1] = lastOp.st
       /\ lastOp.st > callStack[1].store

\* C15: continuation tagging. A continuation is tagged, when it is scheduled,
\* with the binding active at that moment; the tag does not change while the
\* continuation waits, whatever the other branches and the code that
\* scheduled it do meanwhile (returning from the scope included); and when
\* it runs, the binding is its tag. The binding gives one store, or none,
\* per registry.
ContinuationTagging ==
  [][\A t \in Tasks :
       /\ (tasks[t].status # "suspended" /\ tasks'[t].status = "suspended")
            => tasks'[t].saved = current
       /\ (tasks[t].status = "suspended" /\ tasks'[t].status = "suspended")
            => tasks'[t].saved = tasks[t].saved
       /\ (tasks[t].status = "suspended" /\ tasks'[t].status = "running")
            => /\ running' = t
               /\ current' = tasks[t].saved
               /\ \A r \in Regs : current'[r] \in StoreIds \cup {NoStore}]_vars

\* a continuation scheduled inside a scope reads the scope's store after the
\* callback of the scope has returned and the code that scheduled it is done
ContinuationTaggingWitness ==
  /\ running # NoTask
  /\ tasks[running].root # running
  /\ tasks[tasks[running].root].status = "done"
  /\ callStack = <<>>
  /\ lastOp.kind = "get"
  /\ lastOp.st # NoStore
  /\ lastOp.ret = lastWritten[lastOp.st][lastOp.key]

\* C16: the defaults are immutable. The defaults of every registry are, in
\* every state, the mapping handed to getAsyncContext, whatever was written
\* through ctx, with or without a store; and a read with no active store
\* that returns, returns the default handed over at creation.
DefaultsImmutable ==
  /\ defaults = [r \in Regs |-> DefaultsOf(r)]
  /\ (lastOp.kind = "get" /\ lastOp.st = NoStore /\ lastOp.err = "none")
       => lastOp.ret = DefaultsOf(lastOp.reg)[lastOp.key]

\* a read with no active store returns the default after a write through ctx
\* with no store has failed and a store of the registry was overwritten
DefaultsImmutableWitness ==
  /\ lastOp.kind = "get" /\ lastOp.st = NoStore /\ lastOp.err = "none"
  /\ lastOp.key = "correlationId"
  /\ lastOp.ret = DefaultsOf(lastOp.reg)["correlationId"]
  /\ \E s \in StoreIds :
       /\ stores[s].reg = lastOp.reg
       /\ stores[s].map["correlationId"] = Cyclic

\* the documented text of the two diagnostics, in the pieces of
\* SetErrorMessage and GetErrorMessage
DocumentedSetMessage(name, key, jsonValue) ==
  << "AsyncLocalStorage \"", name, "\" store undefined when setting a new value.\n\n",
     "This usually happens when you don't initialize the context before trying to set a value.\n",
     "Make sure you are using `runWithAsyncContext` to wrap your entry point.\n\n",
     "Key: \t'", key, "'\nValue: \t'", jsonValue, "'\n" >>
DocumentedGetMessage(name, key) ==
  << "AsyncLocalStorage \"", name, "\" store undefined when getting a value.\n\n",
     "This usually happens when you don't initialize the context before trying to get a value.\n",
     "Make sure you are using `runWithAsyncContext` to wrap your entry point.\n\n",
     "Key: \t'", key, "'\n" >>

ReadOfActiveStore ==
  (lastOp.kind = "get" /\ lastOp.st # NoStore) =>
    /\ lastOp.err = "none"
    /\ ~lastOp.hook
    /\ lastOp.msg = <<>>
    /\ hookCalls = [r \in Regs |-> 0]
    /\ lastOp.ret = IF stores[lastOp.st].map[lastOp.key] = Absent
                    THEN DefaultsOf(lastOp.reg)[lastOp.key]
                    ELSE stores[lastOp.st].map[lastOp.key]
    /\ stores[lastOp.st].map[lastOp.key] \in EmptyVals
         => lastOp.ret # DefaultsOf(lastOp.reg)[lastOp.key]

\* a read returns the undefined that was written over a seeded value
ReadOfActiveStoreWitness ==
  /\ lastOp.kind = "get" /\ lastOp.st # NoStore
  /\ lastOp.key = "userId"
  /\ lastOp.ret = Undefined
  /\ stores[lastOp.st].map["correlationId"] = ":id1"

\* C19: a nested scope does not inherit. A read in a scope returns what was
\* last written to the key in the store of that scope, the innermost one,
\* and the default when nothing was (whatever the enclosing store holds);
\* every store holds exactly what was written to it, so that a write in the
\* inner scope lands in the inner store only and the outer value is read
\* again after the inner call has returned.
NestedScopeDoesNotInherit ==
  /\ \A s \in 1..nstores : stores[s].map = lastWritten[s]
  /\ (running # NoTask /\ lastOp.kind = "get" /\ lastOp.st # NoStore) =>
       /\ lastOp.st = ExpectedStore(lastOp.reg)
       /\ lastOp.ret = IF lastWritten[lastOp.st][lastOp.key] = Absent
                       THEN DefaultsOf(lastOp.reg)[lastOp.key]
                       ELSE lastWritten[lastOp.st][lastOp.key]

\* back in the outer callback, userId reads the outer value after the inner
\* scope, seeded without userId, wrote it
NestedScopeWitness ==
  /\ running # NoTask
  /\ Len(callStack) = 1 /\ callStack[1].store = 1
  /\ lastOp.kind = "get" /\ lastOp.key = "userId" /\ lastOp.st = 1
  /\ lastOp.ret = ":id1"
  /\ nstores = 2
  /\ lastWritten[2]["correlationId"] = Undefined
  /\ stores[2].map["userId"] = Empty

\* the continuations that wait, tagged with store s of registry r, while
\* another one runs
Sharers(r, s) ==
  {u \in Tasks : /\ u # running
                 /\ tasks[u].status = "suspended"
                 /\ susp[u][r] = s}

\* C20: the continuations of one scope share its store. After a write of key
\* k by one of them, every other continuation tagged with that store is still
\* bound to the same store and that store holds the written value for k; and
\* a read of k by a continuation that shares the store with others returns
\* the value written last, whoever wrote it.
ScopeStoreShared ==
  /\ (running # NoTask /\ lastOp.kind = "set" /\ lastOp.st # NoStore) =>
       /\ lastOp.err = "none"
       /\ \A u \in Sharers(lastOp.reg, lastOp.st) :
            /\ tasks[u].saved[lastOp.reg] = lastOp.st
            /\ stores[tasks[u].saved[lastOp.reg]].map[lastOp.key] = lastOp.val
  /\ (running # NoTask /\ lastOp.kind = "get" /\ lastOp.st # NoStore
        /\ Sharers(lastOp.reg, lastOp.st) # {}) =>
       /\ lastOp.st = susp[running][lastOp.reg] \/ callStack # <<>>
       /\ lastWritten[lastOp.st][lastOp.key] # Absent
            => lastOp.ret = lastWritten[lastOp.st][lastOp.key]

\* a continuation spawned in a scope overwrites correlationId while the
\* continuation that spawned it waits in the same scope
ScopeStoreSharedWitness ==
  /\ running # NoTask
  /\ callStack = <<>>
  /\ tasks[running].root # running
  /\ lastOp.kind = "set" /\ lastOp.st # NoStore /\ lastOp.val = ":id2"
  /\ stores[lastOp.st].map["userId"] = Absent
  /\ \E u \in Sharers(lastOp.reg, lastOp.st) : tasks[u].root = tasks[running].root

\* the call of runWithAsyncContext that has just ended did so by throwing
FailedCall ==
  running # NoTask /\ lastOp.kind = "exit" /\ lastOp.ret = "" /\ lastOp.val = ""

\* C21: a callback that throws synchronously. The call throws the callback's
\* exception to its caller, and the caller's binding is what it was before
\* the call: the store of the innermost call still pending (the outer one),
\* or the binding the branch had outside every call (none at top level); the
\* store of the failed call is bound no more, and a read of any key now
\* gives what the restored store holds, or the default with the hook when
\* there is none.
ThrowPropagatesAndRestores ==
  FailedCall =>
    /\ lastOp.err \in CallbackErrors
    /\ lastOp.st \notin StoresOnStack
    /\ \A r \in MainRegs :
         /\ GetStore(r) = ExpectedStore(r)
         /\ GetStore(r) # lastOp.st
         /\ callStack = <<>> => GetStore(r) = susp[running][r]
         /\ \A k \in Keys :
              /\ GetCallsHook(r, k) <=> ExpectedStore(r) = NoStore
              /\ GetValue(r, k) =
                   IF ExpectedStore(r) = NoStore
                   THEN DefaultsOf(r)[k]
                   ELSE IF lastWritten[ExpectedStore(r)][k] = Absent
                        THEN DefaultsOf(r)[k]
                        ELSE lastWritten[ExpectedStore(r)][k]

\* a nested call has thrown the exception of its callback: the outer store,
\* which holds another correlationId than the failed call's, is active again
ThrowWitness ==
  /\ running # NoTask
  /\ lastOp.kind = "exit"
  /\ lastOp.err = "CallbackError"
  /\ Len(callStack) = 1
  /\ GetStore(1) = callStack[1].store
  /\ lastOp.st > callStack[1].store
  /\ GetValue(1, "correlationId") # stores[lastOp.st].map["correlationId"]

====
